---- MODULE Spec2Model ----
(***************************************************************************)
(* Model of the heart-disease exploratory-analysis toolkit:                *)
(*   src/src/ingest_data.py          DataIngestorFactory, CSVIngestor,     *)
(*                                   ZipFileIngestor                       *)
(*   src/src/clean_data.py           DataCleaningTemplate,                 *)
(*                                   SimpleDataCleaner                     *)
(*   src/analysis/src/data_inspection.py          DataInspector and the    *)
(*                                   inspection strategies                 *)
(*   src/analysis/analysis_src/missing_values_analysis.py                  *)
(*                                   MissingValuesAnalysisTemplate,        *)
(*                                   SimpleMissingValuesAnalysis           *)
(* The four components share no state; each has its own specification      *)
(* (SpecFactory, SpecIngest, SpecClean, SpecInspect, SpecAnalyze) over its *)
(* own variables, the other components' variables staying at their        *)
(* initial values.                                                         *)
(*                                                                         *)
(* A Python str is a sequence of one-character strings, so that split,     *)
(* slicing, replace and endswith are computed character by character.      *)
(***************************************************************************)
EXTENDS Integers, Sequences, FiniteSets, TLC

VARIABLES
    \* ---- ingest_data.py ----
    data_source_uri,   \* the locator the caller works with
    factory,           \* what the last get_ingestor call returned or raised
    dir_exists,        \* whether the directory datasets exists
    files,             \* datasets: file name -> content
    temp_zip,          \* content of temp_zip_file.zip, NoFile when absent
    last,              \* record of the last ingest_data call: what it did and
                       \* what the caller can observe of it
    \* ---- clean_data.py ----
    heap,              \* object id -> table (a DataFrame is a mutable object)
    cleans,            \* records of the clean_data calls made, in order
    orig,              \* the table as first loaded
    \* ---- data_inspection.py ----
    _strategy,         \* DataInspector._strategy
    ops,               \* the caller's calls on the DataInspector, in order
    invocations,       \* the strategy inspect() calls that ran, in order
    inspected,         \* record of the last DataInspector.inspect call
    \* ---- missing_values_analysis.py ----
    analysis           \* the table the caller holds and the record of the last
                       \* analyze call on it

ingest_vars == <<data_source_uri, factory, dir_exists, files, temp_zip, last>>

clean_vars == <<heap, cleans, orig>>

inspect_vars == <<_strategy, ops, invocations, inspected>>

analyze_vars == <<analysis>>

vars == <<data_source_uri, factory, dir_exists, files, temp_zip, last,
          heap, cleans, orig,
          _strategy, ops, invocations, inspected, analysis>>

(***************************************************************************)
(* Python str operations                                                   *)
(***************************************************************************)

\* s.endswith(suffix)
endswith(s, suffix) ==
    /\ Len(suffix) <= Len(s)
    /\ SubSeq(s, Len(s) - Len(suffix) + 1, Len(s)) = suffix

\* s.split('/')[-1]: what follows the last '/', the whole of s when it has none
RECURSIVE last_segment(_)
last_segment(s) ==
    IF s = <<>> THEN <<>>
    ELSE IF s[Len(s)] = "/" THEN <<>>
    ELSE Append(last_segment(SubSeq(s, 1, Len(s) - 1)), s[Len(s)])

\* s[:-3]: s without its last three characters, empty when s has at most three
drop_last3(s) == IF Len(s) <= 3 THEN <<>> ELSE SubSeq(s, 1, Len(s) - 3)

\* s.replace("+", "_")
replace_plus(s) == [i \in 1..Len(s) |-> IF s[i] = "+" THEN "_" ELSE s[i]]

(***************************************************************************)
(* Locators: a stem of path characters followed by a tail                  *)
(***************************************************************************)

MaxStem == 2

StemChars == {"a", "+", "/"}

RECURSIVE SeqsUpTo(_, _)
SeqsUpTo(S, n) ==
    IF n = 0 THEN {<<>>}
    ELSE LET shorter == SeqsUpTo(S, n - 1)
         IN  shorter \cup {Append(s, c) : s \in shorter, c \in S}

Tails ==
    { <<>>,
      <<".", "c", "s", "v">>,
      <<".", "z", "i", "p">>,
      <<"c", "s", "v">>,
      <<".", "z", "i">>,
      <<".", "C", "S", "V">>,
      <<".", "c", "s", "v", "/">>,
      <<".", "z", "i", "p", "x">>,
      <<".", "c", "s", "v", ".", "z", "i", "p">> }

Locators == {stem \o tail : stem \in SeqsUpTo(StemChars, MaxStem), tail \in Tails}

\* The locators ingest_data is run on: direct files and archives, with and
\* without a path, a "+" in the name, a name shorter than the three
\* characters the archive variant cuts off, and a locator ending in "/".
IngestLocators ==
    { <<"d", "/", "a", ".", "c", "s", "v">>,
      <<"d", "/", "a", ".", "z", "i", "p">>,
      <<"d", "/", "a", "+", "b", ".", "z", "i", "p">>,
      <<"a", "+", "b", ".", "c", "s", "v">>,
      <<"a", "_", "b", ".", "z", "i", "p">>,
      <<"d", "/", "a", "b">>,
      <<"d", ".", "c", "/">>,
      <<>> }

(***************************************************************************)
(* ingest_data.py                                                          *)
(***************************************************************************)

NoFile == "NoFile"

Bodies == {"body1", "body2"}

\* a member of the downloaded archive whose name is not the derived one
OtherMember == <<"d", ".", "c", "s", "v">>

\* the existence test made on the bare filename, in the working directory,
\* where no dataset is
path_exists_bare(filename, dir, fs) == FALSE

\* os.path.exists(os.path.join("datasets", filename)): an empty filename
\* joins to "datasets/", the directory itself
path_exists(filename, dir, fs) ==
    IF filename = <<>> THEN dir ELSE filename \in DOMAIN fs

\* open(path, "wb"); write(content): creates or truncates the file
write_file(fs, filename, content) ==
    [n \in DOMAIN fs \cup {filename} |-> IF n = filename THEN content ELSE fs[n]]

\* zip_ref.extractall("datasets") for the members written so far
extract(fs, members, content) ==
    [n \in DOMAIN fs \cup members |-> IF n \in members THEN content ELSE fs[n]]

\* get_ingestor testing the extension without its dot
get_ingestor_no_dot(uri) ==
    IF endswith(uri, <<"c", "s", "v">>) THEN "CSVIngestor"
    ELSE IF endswith(uri, <<"z", "i", "p">>) THEN "ZipFileIngestor"
    ELSE "ValueError"

\* DataIngestorFactory.get_ingestor
get_ingestor(uri) ==
    IF endswith(uri, <<".", "c", "s", "v">>) THEN "CSVIngestor"
    ELSE IF endswith(uri, <<".", "z", "i", "p">>) THEN "ZipFileIngestor"
    ELSE "ValueError"

\* CSVIngestor.ingest_data: filename
csv_filename(uri) == last_segment(uri)

\* ZipFileIngestor.ingest_data: filename
zip_filename(uri) == replace_plus(drop_last3(last_segment(uri)) \o <<"c", "s", "v">>)

\* HTTP status of a successful transfer
StatusOK == 200

\* What one requests.get can do: raise, answer with a status other than 200,
\* or answer 200 with a body.  A body fetched by the archive variant is either
\* no zip file at all or an archive: a set of member names, each holding data.
\* content is the raw body, data what each archive member holds.
Responses(uri) ==
    {[kind |-> "exception", status |-> 0, content |-> NoFile, zip |-> FALSE,
      members |-> {}, data |-> NoFile]}
    \cup {[kind |-> "response", status |-> st, content |-> "error page", zip |-> FALSE,
            members |-> {}, data |-> NoFile] : st \in {404}}
    \cup {[kind |-> "response", status |-> StatusOK, content |-> b, zip |-> FALSE,
            members |-> {}, data |-> NoFile] : b \in Bodies}
    \cup {[kind |-> "response", status |-> StatusOK, content |-> "zip bytes", zip |-> TRUE,
            members |-> m, data |-> b]
            : b \in Bodies, m \in SUBSET {zip_filename(uri), OtherMember}}

NoCall ==
    [op |-> "None", target |-> <<>>, fetches |-> 0, outcome |-> "none",
     propagated |-> FALSE,
     existed |-> FALSE, answer |-> "none", files_same |-> TRUE, temp_same |-> TRUE]

\* What the caller can observe of a call next to what the call reports:
\* whether a file of the target name was in datasets before it, what the
\* network had to answer, and whether datasets and the temporary archive
\* are as they were.
Observed(call, resp, fs, tmp, fs2, tmp2) ==
    call @@ [existed |-> call.target \in DOMAIN fs,
             answer |-> IF resp.kind = "exception" THEN "exception"
                        ELSE IF resp.status = StatusOK THEN "ok" ELSE "bad_status",
             files_same |-> fs2 = fs,
             temp_same |-> tmp2 = tmp]

InitFactory ==
    /\ data_source_uri \in Locators
    /\ factory = "none"
    /\ dir_exists = FALSE
    /\ files = <<>>
    /\ temp_zip = NoFile
    /\ last = NoCall

InitIngest ==
    /\ data_source_uri \in IngestLocators
    /\ factory = "none"
    /\ dir_exists = FALSE
    /\ files = <<>>
    /\ temp_zip = NoFile
    /\ last = NoCall

\* DataIngestorFactory.get_ingestor(uri): the caller holds what it returns,
\* and nothing when it raises
GetIngestor ==
    /\ factory' = get_ingestor(data_source_uri)
    /\ UNCHANGED <<data_source_uri, dir_exists, files, temp_zip, last>>
    /\ UNCHANGED <<clean_vars, inspect_vars, analyze_vars>>

\* The outcome of one ingest_data call: the file system after it and what the
\* call did (fetches: the number of requests.get calls it made).
Call(op, filename, n, outcome) ==
    [op |-> op, target |-> filename, fetches |-> n, outcome |-> outcome,
     propagated |-> FALSE]

\* CSVIngestor.ingest_data writing the body whatever the status is
CSVIngestor_ingest_data_any_status(uri, fs, tmp, resp, write_ok) ==
    LET filename == csv_filename(uri)
        call(n, outcome) == Call("CSVIngestor", filename, n, outcome)
    IN  IF path_exists(filename, TRUE, fs)
        THEN [files |-> fs, temp |-> tmp, call |-> call(0, "skipped")]
        ELSE IF resp.kind = "exception"
        THEN [files |-> fs, temp |-> tmp, call |-> call(1, "net_exception")]
        ELSE IF ~write_ok
        THEN [files |-> fs, temp |-> tmp, call |-> call(1, "io_exception")]
        ELSE [files |-> write_file(fs, filename, resp.content), temp |-> tmp,
              call |-> call(1, "downloaded")]

\* CSVIngestor.ingest_data(data_source_uri).  resp is what requests.get does,
\* write_ok whether open(file_path, "wb") succeeds.
CSVIngestor_ingest_data(uri, fs, tmp, resp, write_ok) ==
    LET filename == csv_filename(uri)
        call(n, outcome) == Call("CSVIngestor", filename, n, outcome)
    IN  IF path_exists(filename, TRUE, fs)
        THEN [files |-> fs, temp |-> tmp, call |-> call(0, "skipped")]
        ELSE IF resp.kind = "exception"
        THEN [files |-> fs, temp |-> tmp, call |-> call(1, "net_exception")]
        ELSE IF resp.status # StatusOK
        THEN [files |-> fs, temp |-> tmp, call |-> call(1, "bad_status")]
        ELSE IF ~write_ok
        THEN [files |-> fs, temp |-> tmp, call |-> call(1, "io_exception")]
        ELSE [files |-> write_file(fs, filename, resp.content), temp |-> tmp,
              call |-> call(1, "downloaded")]

\* ZipFileIngestor.ingest_data(data_source_uri).  done is the set of members
\* extractall has written when it stops: all of them, or fewer when it fails.
ZipFileIngestor_ingest_data(uri, fs, tmp, resp, write_ok, done) ==
    LET filename == zip_filename(uri)
        call(n, outcome) == Call("ZipFileIngestor", filename, n, outcome)
    IN  IF path_exists(filename, TRUE, fs)
        THEN [files |-> fs, temp |-> tmp, call |-> call(0, "skipped")]
        ELSE IF resp.kind = "exception"
        THEN [files |-> fs, temp |-> tmp, call |-> call(1, "net_exception")]
        ELSE IF resp.status # StatusOK
        THEN [files |-> fs, temp |-> tmp, call |-> call(1, "bad_status")]
        ELSE IF ~write_ok
        THEN [files |-> fs, temp |-> tmp, call |-> call(1, "io_exception")]
        ELSE IF ~resp.zip
        THEN \* zipfile.BadZipFile, caught; the temporary archive stays
             [files |-> fs, temp |-> resp.content, call |-> call(1, "io_exception")]
        ELSE IF done # resp.members
        THEN \* extractall failed part-way, caught; the temporary archive stays
             [files |-> extract(fs, done, resp.data), temp |-> resp.content,
              call |-> call(1, "io_exception")]
        ELSE \* extracted, then os.remove("temp_zip_file.zip")
             [files |-> extract(fs, resp.members, resp.data), temp |-> NoFile,
              call |-> call(1, "downloaded")]

\* CSVIngestor().ingest_data(data_source_uri): the classes are public, a
\* caller can run either variant on any locator.  Whether the body is a zip
\* file makes no difference to this variant.
IngestCSV ==
    /\ \E resp \in {x \in Responses(data_source_uri) : ~x.zip}, write_ok \in BOOLEAN :
         LET r == CSVIngestor_ingest_data(data_source_uri, files, temp_zip, resp, write_ok)
         IN  /\ dir_exists' = TRUE
             /\ files' = r.files
             /\ temp_zip' = r.temp
             /\ last' = Observed(r.call, resp, files, temp_zip, r.files, r.temp)
    /\ UNCHANGED <<data_source_uri, factory>>
    /\ UNCHANGED <<clean_vars, inspect_vars, analyze_vars>>

\* ZipFileIngestor().ingest_data(data_source_uri)
IngestZip ==
    /\ \E resp \in Responses(data_source_uri), write_ok \in BOOLEAN,
          done \in SUBSET {zip_filename(data_source_uri), OtherMember} :
         /\ done \subseteq resp.members
         /\ LET r == ZipFileIngestor_ingest_data(data_source_uri, files, temp_zip,
                                                 resp, write_ok, done)
            IN  /\ dir_exists' = TRUE
                /\ files' = r.files
                /\ temp_zip' = r.temp
                /\ last' = Observed(r.call, resp, files, temp_zip, r.files, r.temp)
    /\ UNCHANGED <<data_source_uri, factory>>
    /\ UNCHANGED <<clean_vars, inspect_vars, analyze_vars>>

NextFactory == GetIngestor

NextIngest ==
    \/ IngestCSV
    \/ IngestZip

(***************************************************************************)
(* clean_data.py                                                           *)
(***************************************************************************)

\* A cell holds an integer or a string; the two never compare equal.
Num(n) == [kind |-> "int", num |-> n, str |-> ""]

Str(x) == [kind |-> "str", num |-> 0, str |-> x]

\* A table is a sequence of named columns, each a sequence of cells.
Column(name, vals) == [name |-> name, vals |-> vals]

\* c in data.columns
has_column(t, c) == \E i \in DOMAIN t : t[i].name = c

\* data[c]
column(t, c) == t[CHOOSE i \in DOMAIN t : t[i].name = c].vals

\* data[c] = vals, for a column the table has
set_column(t, c, vals) ==
    [i \in DOMAIN t |-> IF t[i].name = c THEN Column(c, vals) ELSE t[i]]

\* the comparison made with 1 for "Yes" instead of with 0 for "No"
np_where_one(vals, zero, other) ==
    [i \in DOMAIN vals |->
        IF vals[i].kind = "int" /\ vals[i].num = 1 THEN Str(other) ELSE Str(zero)]

\* a comparison that also takes the labels of the zero code for zero
equals_zero_or_label(v) ==
    \/ v.kind = "int" /\ v.num = 0
    \/ v.kind = "str" /\ v.str \in {"No", "Woman"}

\* data[c] == 0, cell by cell
equals_zero(v) == v.kind = "int" /\ v.num = 0

\* np.where(data[c] == 0, zero, other)
np_where_zero(vals, zero, other) ==
    [i \in DOMAIN vals |-> IF equals_zero(vals[i]) THEN Str(zero) ELSE Str(other)]

\* rename without inplace=True: the table itself keeps its names
rename_not_inplace(t, old, new) == t

\* data.rename(columns={old: new}, inplace=True): a name the table lacks is ignored
rename(t, old, new) ==
    [i \in DOMAIN t |-> IF t[i].name = old THEN Column(new, t[i].vals) ELSE t[i]]

\* The recoding statements of prepare_data, in order
Recodes ==
    << [col |-> "anaemia", zero |-> "No", other |-> "Yes"],
       [col |-> "diabetes", zero |-> "No", other |-> "Yes"],
       [col |-> "high_blood_pressure", zero |-> "No", other |-> "Yes"],
       [col |-> "sex", zero |-> "Woman", other |-> "Man"],
       [col |-> "smoking", zero |-> "No", other |-> "Yes"] >>

\* the recoding statements guarded by "if column in data": a missing column
\* is passed over
RECURSIVE recode_from_guarded(_, _)
recode_from_guarded(t, k) ==
    IF k > Len(Recodes) THEN [table |-> t, exc |-> "none", key |-> ""]
    ELSE IF ~has_column(t, Recodes[k].col)
    THEN recode_from_guarded(t, k + 1)
    ELSE recode_from_guarded(
            set_column(t, Recodes[k].col,
                np_where_zero(column(t, Recodes[k].col), Recodes[k].zero, Recodes[k].other)),
            k + 1)

\* The recoding statements from the k-th on: each reads its column (KeyError
\* when the table lacks it, the statements before it having taken effect) and
\* stores the recoded column in place.
RECURSIVE recode_from(_, _)
recode_from(t, k) ==
    IF k > Len(Recodes) THEN [table |-> t, exc |-> "none", key |-> ""]
    ELSE IF ~has_column(t, Recodes[k].col)
    THEN [table |-> t, exc |-> "KeyError", key |-> Recodes[k].col]
    ELSE recode_from(
            set_column(t, Recodes[k].col,
                np_where_zero(column(t, Recodes[k].col), Recodes[k].zero, Recodes[k].other)),
            k + 1)

\* None: what a call that raises hands back (no object; objects count from 1)
None == 0

\* SimpleDataCleaner.prepare_data(data) on the object ref of heap h
prepare_data(h, ref) ==
    LET r == recode_from(h[ref], 1)
    IN  IF r.exc # "none"
        THEN [heap |-> [h EXCEPT ![ref] = r.table], ret |-> None,
              exc |-> r.exc, key |-> r.key]
        ELSE [heap |-> [h EXCEPT ![ref] = rename(r.table, "DEATH_EVENT", "death_event")],
              ret |-> ref, exc |-> "none", key |-> ""]

\* Rows printed by DataFrame.head()
HeadRows == 5

\* cleaned_data.head()
head(t) ==
    [i \in DOMAIN t |->
        Column(t[i].name,
               SubSeq(t[i].vals, 1, IF Len(t[i].vals) < HeadRows THEN Len(t[i].vals)
                                    ELSE HeadRows))]

\* DataCleaningTemplate.clean_data(data, head): printed is what reaches the console
clean_data(h, ref, show_head) ==
    LET r == prepare_data(h, ref)
    IN  [heap |-> r.heap, ret |-> r.ret, exc |-> r.exc, key |-> r.key,
         printed |-> IF r.exc = "none" /\ show_head THEN <<head(r.heap[r.ret])>> ELSE <<>>]

\* Input tables.  Columns in file order; any subset of them may be present.
AllColumns ==
    <<"age", "anaemia", "diabetes", "high_blood_pressure", "sex", "smoking",
      "DEATH_EVENT", "death_event">>

Referenced == {"anaemia", "diabetes", "high_blood_pressure", "sex", "smoking", "DEATH_EVENT"}

MaxRows == 2

MaxCode == 2

MaxCleanCalls == 2

\* the subsequence of s whose elements satisfy membership in S
RECURSIVE select_in(_, _)
select_in(s, S) ==
    IF s = <<>> THEN <<>>
    ELSE LET rest == select_in(SubSeq(s, 1, Len(s) - 1), S)
         IN  IF s[Len(s)] \in S THEN Append(rest, s[Len(s)]) ELSE rest

\* Row i holds in the j-th column of the file the code (base[i] + j) modulo
\* the number of codes: over all base vectors every column takes every vector
\* of codes, and two columns never hold the same vector.
input_table(present, base) ==
    LET names == select_in(AllColumns, present)
        pos(c) == CHOOSE j \in DOMAIN AllColumns : AllColumns[j] = c
    IN  [k \in DOMAIN names |->
            Column(names[k],
                   [i \in DOMAIN base |-> Num((base[i] + pos(names[k])) % (MaxCode + 1))])]

InputTables ==
    {input_table(present, base) :
        present \in SUBSET {AllColumns[j] : j \in DOMAIN AllColumns},
        base \in UNION {[1..n -> 0..MaxCode] : n \in 0..MaxRows}}

InitClean ==
    /\ \E t \in InputTables : heap = (1 :> t) /\ orig = t
    /\ cleans = <<>>

\* cleaner.clean_data(df, head) on a table object the caller holds.  The
\* record keeps the object passed, the table before and after the call, and
\* what the call returned, raised and printed.
CleanData ==
    /\ Len(cleans) < MaxCleanCalls
    /\ \E ref \in DOMAIN heap, show_head \in BOOLEAN :
         LET r == clean_data(heap, ref, show_head)
         IN  /\ heap' = r.heap
             /\ cleans' = Append(cleans,
                    [arg |-> ref, ret |-> r.ret, exc |-> r.exc, key |-> r.key,
                     printed |-> r.printed, before |-> heap[ref],
                     after |-> r.heap[ref]])
    /\ UNCHANGED orig
    /\ UNCHANGED <<ingest_vars, inspect_vars, analyze_vars>>

NextClean == CleanData

(***************************************************************************)
(* data_inspection.py                                                      *)
(***************************************************************************)

\* The objects a caller can hand to DataInspector: the two strategies, and an
\* object that has no inspect method (nothing checks the argument's type).
Strategies == {"DataTypeInspection", "SummaryStatisticsInspection"}

Objects == Strategies \cup {"NotAStrategy"}

MaxCols == 1

\* A table as the inspections see it: how many numeric and how many other
\* (categorical) columns it has.
Shapes == [numeric : 0..MaxCols, categorical : 0..MaxCols]

\* DataTypeInspection.inspect: info() prints its report and returns None,
\* which print then prints.
DataTypeInspection_inspect(data) ==
    [printed |-> <<"Data Types and Non-NULL counts:", "info", "None">>, exc |-> "none"]

\* SummaryStatisticsInspection.inspect: describe() of a table without columns
\* raises ValueError outside the try; describe(exclude=np.number) finding no
\* column raises the ValueError the handler answers with a notice.
SummaryStatisticsInspection_inspect(data) ==
    IF data.numeric + data.categorical = 0
    THEN [printed |-> <<"Summary statistics for numerical features:">>,
          exc |-> "ValueError"]
    ELSE [printed |->
            << "Summary statistics for numerical features:",
               IF data.numeric > 0 THEN "describe(numeric)" ELSE "describe(object)",
               "Summary statistics for categorical features:",
               IF data.categorical > 0 THEN "describe(categorical)"
               ELSE "data does not contain categorical features." >>,
          exc |-> "none"]

\* strategy.inspect(data) by dynamic dispatch; an object without the method
\* raises AttributeError and no inspection runs
dispatch_inspect(strategy, data) ==
    IF strategy = "DataTypeInspection"
    THEN [invoked |-> <<strategy>>] @@ DataTypeInspection_inspect(data)
    ELSE IF strategy = "SummaryStatisticsInspection"
    THEN [invoked |-> <<strategy>>] @@ SummaryStatisticsInspection_inspect(data)
    ELSE [invoked |-> <<>>, printed |-> <<>>, exc |-> "AttributeError"]

\* DataInspector.__init__(strategy): the value of self._strategy
DataInspector_init(strategy) == strategy

\* set_strategy keeping the current strategy when handed no strategy
DataInspector_set_strategy_validating(current, strategy) ==
    IF strategy \in Strategies THEN strategy ELSE current

\* DataInspector.set_strategy(strategy): the new value of self._strategy
DataInspector_set_strategy(current, strategy) == strategy

\* DataInspector.inspect(data)
DataInspector_inspect(current, data) == dispatch_inspect(current, data)

MaxOps == 4

NoInspect == [invoked |-> <<>>, printed |-> <<>>, exc |-> "none"]

InitInspect ==
    /\ \E s \in Objects :
         /\ _strategy = DataInspector_init(s)
         /\ ops = <<[op |-> "init", arg |-> s]>>
    /\ invocations = <<>>
    /\ inspected = NoInspect

\* inspector.set_strategy(s)
SetStrategy(s) ==
    /\ Len(ops) < MaxOps
    /\ _strategy' = DataInspector_set_strategy(_strategy, s)
    /\ ops' = Append(ops, [op |-> "set_strategy", arg |-> s])
    /\ UNCHANGED <<invocations, inspected>>
    /\ UNCHANGED <<ingest_vars, clean_vars, analyze_vars>>

\* inspector.inspect(df)
Inspect(data) ==
    /\ Len(ops) < MaxOps
    /\ LET r == DataInspector_inspect(_strategy, data)
       IN  /\ invocations' = invocations \o r.invoked
           /\ inspected' = r
    /\ ops' = Append(ops, [op |-> "inspect", arg |-> "df"])
    /\ UNCHANGED _strategy
    /\ UNCHANGED <<ingest_vars, clean_vars, analyze_vars>>

NextInspect ==
    \/ \E s \in Objects : SetStrategy(s)
    \/ \E data \in Shapes : Inspect(data)

(***************************************************************************)
(* missing_values_analysis.py                                              *)
(***************************************************************************)

MaxACols == 2

MaxARows == 3

\* A table as the analysis sees it: per column, per row, whether the cell is
\* missing (data.isnull()).
Masks == UNION {[1..c -> [1..r -> BOOLEAN]] : c \in 0..MaxACols, r \in 0..MaxARows}

\* len(data); a table without columns is taken to have no rows
row_count(data) == IF Len(data) = 0 THEN 0 ELSE Len(data[1])

\* data.isnull().sum(): the number of missing cells of each column
isnull_sum(data) ==
    [j \in DOMAIN data |-> Cardinality({i \in DOMAIN data[j] : data[j][i]})]

\* round(x, 2) of x = 100 * k / n, in hundredths, ties to even
round2(k, n) ==
    LET q == (10000 * k) \div n
        twice == 2 * ((10000 * k) % n)
    IN  IF twice < n THEN q
        ELSE IF twice > n THEN q + 1
        ELSE IF q % 2 = 0 THEN q ELSE q + 1

\* the entries of a per-column series that are positive, with their column
RECURSIVE positive(_)
positive(counts) ==
    IF counts = <<>> THEN <<>>
    ELSE LET rest == positive(SubSeq(counts, 1, Len(counts) - 1))
         IN  IF counts[Len(counts)] > 0
             THEN Append(rest, [col |-> Len(counts), value |-> counts[Len(counts)]])
             ELSE rest

\* SimpleMissingValuesAnalysis.identity_missing_values
identity_missing_values(data) ==
    [printed |-> <<"Missing values count by columns:", positive(isnull_sum(data))>>,
     exc |-> "none"]

\* the percentage computed by plain division, which raises on a row count of 0
analyze_missing_values_plain_division(data) ==
    IF row_count(data) = 0
    THEN [printed |-> <<"Missing values percentages by column">>,
          exc |-> "ZeroDivisionError"]
    ELSE [printed |->
            << "Missing values percentages by column",
               [j \in DOMAIN data |->
                   [nan |-> FALSE,
                    hundredths |-> round2(isnull_sum(data)[j], row_count(data))]] >>,
          exc |-> "none"]

\* SimpleMissingValuesAnalysis.analyze_missing_values: a division by a row
\* count of 0 yields NaN for every column, it raises nothing
analyze_missing_values(data) ==
    [printed |->
        << "Missing values percentages by column",
           [j \in DOMAIN data |->
               IF row_count(data) = 0 THEN [nan |-> TRUE, hundredths |-> 0]
               ELSE [nan |-> FALSE,
                     hundredths |-> round2(isnull_sum(data)[j], row_count(data))]] >>,
     exc |-> "none"]

\* SimpleMissingValuesAnalysis.visualize_missing_values: drawing can fail
\* (a table without cells, no display), which raises out of the step
visualize_missing_values(data, plot_ok) ==
    [printed |-> <<"Visualizing missing values . . .">> \o
                 (IF plot_ok THEN <<"Missing values Heatmap">> ELSE <<>>),
     exc |-> IF plot_ok THEN "none" ELSE "ValueError"]

\* MissingValuesAnalysisTemplate.analyze: the three steps in sequence, an
\* exception raised by a step ending the call
analyze(data, plot_ok) ==
    LET s1 == identity_missing_values(data)
        s2 == analyze_missing_values(data)
        s3 == visualize_missing_values(data, plot_ok)
    IN  IF s1.exc # "none"
        THEN [steps |-> <<"identify">>, printed |-> <<s1.printed>>, exc |-> s1.exc]
        ELSE IF s2.exc # "none"
        THEN [steps |-> <<"identify", "quantify">>,
              printed |-> <<s1.printed, s2.printed>>, exc |-> s2.exc]
        ELSE [steps |-> <<"identify", "quantify", "visualize">>,
              printed |-> <<s1.printed, s2.printed, s3.printed>>, exc |-> s3.exc]

\* The record of the table the caller holds before any analysis of it
NoAnalysis(data) ==
    [called |-> FALSE, data |-> data, steps |-> <<>>, printed |-> <<>>, exc |-> "none"]

InitAnalyze == \E data \in Masks : analysis = NoAnalysis(data)

\* missing_values_analyzer.analyze(df) on the table the caller holds
Analyze ==
    /\ \E plot_ok \in BOOLEAN :
         analysis' = [called |-> TRUE, data |-> analysis.data]
                        @@ analyze(analysis.data, plot_ok)
    /\ UNCHANGED <<ingest_vars, clean_vars, inspect_vars>>

NextAnalyze == Analyze

(***************************************************************************)
(* Specifications, one per component                                       *)
(***************************************************************************)

IdleIngest ==
    /\ data_source_uri = <<>>
    /\ factory = "none"
    /\ dir_exists = FALSE
    /\ files = <<>>
    /\ temp_zip = NoFile
    /\ last = NoCall

IdleClean ==
    /\ heap = <<>>
    /\ orig = <<>>
    /\ cleans = <<>>

IdleInspect ==
    /\ _strategy = "None"
    /\ ops = <<>>
    /\ invocations = <<>>
    /\ inspected = NoInspect

IdleAnalyze == analysis = NoAnalysis(<<>>)

InitFactorySpec == InitFactory /\ IdleClean /\ IdleInspect /\ IdleAnalyze

InitIngestSpec == InitIngest /\ IdleClean /\ IdleInspect /\ IdleAnalyze

InitCleanSpec == IdleIngest /\ InitClean /\ IdleInspect /\ IdleAnalyze

InitInspectSpec == IdleIngest /\ IdleClean /\ InitInspect /\ IdleAnalyze

InitAnalyzeSpec == IdleIngest /\ IdleClean /\ IdleInspect /\ InitAnalyze

SpecFactory == InitFactorySpec /\ [][NextFactory]_vars

SpecIngest == InitIngestSpec /\ [][NextIngest]_vars

SpecClean == InitCleanSpec /\ [][NextClean]_vars

SpecInspect == InitInspectSpec /\ [][NextInspect]_vars

SpecAnalyze == InitAnalyzeSpec /\ [][NextAnalyze]_vars

(***************************************************************************)
(* Properties                                                              *)
(***************************************************************************)

\* the last four characters of u are c1 c2 c3 c4
EndsIn(u, c1, c2, c3, c4) ==
    /\ Len(u) >= 4
    /\ u[Len(u) - 3] = c1
    /\ u[Len(u) - 2] = c2
    /\ u[Len(u) - 1] = c3
    /\ u[Len(u)] = c4

\* C1: get_ingestor returns a CSVIngestor for a locator ending in ".csv", a
\* ZipFileIngestor for one ending in ".zip", and raises ValueError, returning
\* no ingestor, for every other locator.
C1_FactoryBySuffix ==
    factory # "none" =>
        factory = IF EndsIn(data_source_uri, ".", "c", "s", "v") THEN "CSVIngestor"
                  ELSE IF EndsIn(data_source_uri, ".", "z", "i", "p") THEN "ZipFileIngestor"
                  ELSE "ValueError"

\* a locator that has ".csv" inside and ends in ".zip" got the archive variant
C1_Witness ==
    /\ factory = "ZipFileIngestor"
    /\ Len(data_source_uri) >= 8
    /\ SubSeq(data_source_uri, Len(data_source_uri) - 7, Len(data_source_uri) - 4)
         = <<".", "c", "s", "v">>

\* C2: after an ingest_data call whose fetch returned 200 and in which no
\* error occurred, the file of the derived target name exists in datasets
\* (so that the next call with the same locator skips the download).
C2_TargetExistsAfterDownload ==
    (last.answer = "ok" /\ last.outcome = "downloaded") =>
        last.target \in DOMAIN files

\* C3: when the file of the derived target name is in datasets at the call,
\* ingest_data fetches nothing and leaves datasets and the temporary archive
\* as they were.
C3_ExistingTargetSkips ==
    last.existed =>
        /\ last.fetches = 0
        /\ last.files_same
        /\ last.temp_same
        /\ last.outcome = "skipped"

\* the archive variant found its target, holding the second body, and skipped
C3_Witness ==
    /\ last.op = "ZipFileIngestor"
    /\ last.existed
    /\ files[last.target] = "body2"
    /\ last.outcome = "skipped"

\* C4: when the target file is absent and the fetch answers with a status
\* other than 200 or raises, ingest_data returns normally, has fetched once,
\* and leaves datasets as it was, the target file still absent.
C4_FailedFetchLeavesNothing ==
    ( /\ last.op # "None"
      /\ ~last.existed
      /\ last.target # <<>>
      /\ last.answer \in {"exception", "bad_status"} ) =>
        /\ ~last.propagated
        /\ last.fetches = 1
        /\ last.files_same
        /\ last.temp_same
        /\ last.target \notin DOMAIN files

\* a fetch of the CSV variant answered with an error status, other files
\* being in datasets
C4_Witness ==
    /\ last.op = "CSVIngestor"
    /\ ~last.existed
    /\ last.target # <<>>
    /\ last.answer = "bad_status"
    /\ DOMAIN files # {}

YesNoColumns == {"anaemia", "diabetes", "high_blood_pressure", "smoking"}

RecodedColumns == YesNoColumns \cup {"sex"}

\* the label the claim gives a raw value: zero for the integer 0, other for
\* every other value
Label(v, zero, other) == IF v = Num(0) THEN Str(zero) ELSE Str(other)

\* C5: on a table of raw coded values, clean_data turns every value of
\* anaemia, diabetes, high_blood_pressure and smoking into "No" where it was 0
\* and "Yes" where it was anything else, and every value of sex into "Woman"
\* where it was 0 and "Man" otherwise.
C5_Recode ==
    (Len(cleans) >= 1 /\ \A c \in RecodedColumns : has_column(orig, c)) =>
        /\ cleans[1].exc = "none"
        /\ \A c \in YesNoColumns :
             column(cleans[1].after, c) =
                [i \in DOMAIN column(orig, c) |-> Label(column(orig, c)[i], "No", "Yes")]
        /\ column(cleans[1].after, "sex") =
                [i \in DOMAIN column(orig, "sex") |->
                    Label(column(orig, "sex")[i], "Woman", "Man")]

\* a cleaned table whose anaemia column held 0 in one row and 2 in another
C5_Witness ==
    /\ Len(cleans) >= 1
    /\ \A c \in RecodedColumns : has_column(orig, c)
    /\ \E i, j \in DOMAIN column(orig, "anaemia") :
         /\ column(orig, "anaemia")[i] = Num(0)
         /\ column(orig, "anaemia")[j] = Num(2)

\* C6 as stated: clean_data fails, returning no table, whenever the input
\* table lacks one of the six referenced columns.
C6_AnyMissingColumnFails ==
    \A k \in DOMAIN cleans :
        (\E c \in Referenced : ~has_column(cleans[k].before, c)) =>
            cleans[k].exc # "none" /\ cleans[k].ret = None

\* C6 amended: clean_data fails with a KeyError, returning no table, exactly
\* when the input table lacks one of anaemia, diabetes, high_blood_pressure,
\* sex, smoking; a table that lacks only DEATH_EVENT is cleaned and returned.
C6_MissingRecodedColumnFails ==
    \A k \in DOMAIN cleans :
        /\ (\E c \in RecodedColumns : ~has_column(cleans[k].before, c))
              <=> cleans[k].exc = "KeyError"
        /\ cleans[k].exc = "KeyError" => cleans[k].ret = None
        /\ cleans[k].exc # "KeyError" => cleans[k].ret = cleans[k].arg

\* a table that lacks smoking and nothing else was refused
C6_Witness ==
    /\ Len(cleans) >= 1
    /\ \A c \in Referenced \ {"smoking"} : has_column(cleans[1].before, c)
    /\ ~has_column(cleans[1].before, "smoking")
    /\ cleans[1].exc = "KeyError"

\* C7: on a table that has the six referenced columns, clean_data returns
\* the object it was passed, which then has no column DEATH_EVENT and has a
\* column death_event holding the former DEATH_EVENT values.
C7_RenameInPlace ==
    \A k \in DOMAIN cleans :
        (\A c \in Referenced : has_column(cleans[k].before, c)) =>
            /\ cleans[k].ret = cleans[k].arg
            /\ ~has_column(cleans[k].after, "DEATH_EVENT")
            /\ \E i \in DOMAIN cleans[k].after :
                 /\ cleans[k].after[i].name = "death_event"
                 /\ cleans[k].after[i].vals = column(cleans[k].before, "DEATH_EVENT")

\* a cleaned table whose DEATH_EVENT column held two different values
C7_Witness ==
    /\ Len(cleans) >= 1
    /\ \A c \in Referenced : has_column(cleans[1].before, c)
    /\ \E i, j \in DOMAIN column(cleans[1].before, "DEATH_EVENT") :
         column(cleans[1].before, "DEATH_EVENT")[i]
            # column(cleans[1].before, "DEATH_EVENT")[j]
    /\ cleans[1].ret = 1

\* C8: analyze runs identify, then quantify, then visualize, each once, for
\* every table, one without missing cells and one without rows included.
C8_ThreeStepsInOrder ==
    analysis.called => analysis.steps = <<"identify", "quantify", "visualize">>

\* a table with a column and no row was analyzed
C8_Witness ==
    /\ analysis.called
    /\ Len(analysis.data) > 0
    /\ row_count(analysis.data) = 0

\* the object handed to the DataInspector last: by the constructor or by the
\* latest set_strategy among the calls made
RECURSIVE installed(_)
installed(calls) ==
    IF calls[Len(calls)].op \in {"init", "set_strategy"} THEN calls[Len(calls)].arg
    ELSE installed(SubSeq(calls, 1, Len(calls) - 1))

\* the strategy inspections a sequence of calls must have run: one per
\* inspect call, of the strategy installed at that time
RECURSIVE due(_)
due(calls) ==
    IF calls = <<>> THEN <<>>
    ELSE LET before == SubSeq(calls, 1, Len(calls) - 1)
         IN  IF calls[Len(calls)].op = "inspect" /\ installed(before) \in Strategies
             THEN Append(due(before), installed(before))
             ELSE due(before)

\* C9: every DataInspector.inspect call runs once the inspect of the strategy
\* installed most recently and of no other; set_strategy installs what it is
\* handed, whatever it is, and runs no inspection.
C9_InspectDelegates ==
    ops # <<>> =>
        /\ _strategy = installed(ops)
        /\ invocations = due(ops)

\* constructed with one strategy, switched to the other, then inspected
C9_Witness ==
    /\ Len(ops) >= 3
    /\ ops[1].arg = "DataTypeInspection"
    /\ ops[2] = [op |-> "set_strategy", arg |-> "SummaryStatisticsInspection"]
    /\ ops[3].op = "inspect"
    /\ invocations = <<"SummaryStatisticsInspection">>

\* C10: clean_data applied again to the table it returned raises nothing and
\* turns every value of anaemia, diabetes, high_blood_pressure and smoking
\* into "Yes" and every value of sex into "Man", the rows it had set to "No"
\* or "Woman" included; the death_event columns keep their values.
C10_SecondApplication ==
    \A k \in DOMAIN cleans :
        (k >= 2 /\ cleans[k - 1].exc = "none" /\ cleans[k].arg = cleans[k - 1].ret) =>
            /\ cleans[k].exc = "none"
            /\ cleans[k].ret = cleans[k].arg
            /\ \A c \in YesNoColumns :
                 \A i \in DOMAIN column(cleans[k].after, c) :
                    column(cleans[k].after, c)[i] = Str("Yes")
            /\ \A i \in DOMAIN column(cleans[k].after, "sex") :
                 column(cleans[k].after, "sex")[i] = Str("Man")
            /\ \A j \in DOMAIN cleans[k].after :
                 cleans[k].before[j].name = "death_event" =>
                    cleans[k].after[j] = cleans[k].before[j]

\* a second application that met a "No" and a "Woman" left by the first
C10_Witness ==
    /\ Len(cleans) >= 2
    /\ cleans[1].exc = "none"
    /\ cleans[2].arg = cleans[1].ret
    /\ \E i \in DOMAIN column(cleans[2].before, "smoking") :
         column(cleans[2].before, "smoking")[i] = Str("No")
    /\ \E i \in DOMAIN column(cleans[2].before, "sex") :
         column(cleans[2].before, "sex")[i] = Str("Woman")
    /\ has_column(cleans[2].before, "death_event")

====
